---- MODULE Spec2Model ----
(***************************************************************************)
(* A model of two cores of the repository:                                 *)
(*   src/hktest/draid.c              declustered-RAID permutation maps and *)
(*                                    the resilver / decluster evaluators  *)
(*   src/module/zcommon/zfs_fletcher.c  Fletcher-4 kernels and the runtime *)
(*                                    implementation selector              *)
(* Arrays are functions over 0..n-1, as in the C code.                     *)
(***************************************************************************)
EXTENDS Integers, Sequences, FiniteSets, TLC

\* ------------------------------------------------------------------ bounds
MaxDevs == 4        \* largest ndevs handed to new_map
MaxTag == 2         \* mrand48() tags are drawn from 0..MaxTag
MaxCells == 8       \* largest nrows * ndevs of a base map

MaxRun == 2         \* a benchmark loop of fletcher_4_init runs 1..MaxRun times
MaxCycle == 4       \* cycle_count is not incremented past MaxCycle
MaxWords == 3       \* 32-bit words checksummed between two resets of a state

VARIABLES
    bmap,       \* the base map_t (NoMap before new_map)
    dmap,       \* the developed map_t (NoMap before develop_map)
    last,       \* what the last evaluator call did (instrumentation)
    pcm,        \* "run" until an evaluator is called, then "done" (it returned)
                \* or "aborted" (an assert failed)
    cfg,        \* the build (_KERNEL, HAVE_AVX && HAVE_AVX2) and what the CPU
                \* answers to the avx2 kernel's valid()
    phase,      \* "down" before fletcher_4_init and after fletcher_4_fini, else "ready"
    fletcher_4_chosen,
    fletcher_4_fastest,
    fletcher_4_impl_selector,
    fletcher_4_impl_selector_lock,
    cycle_count,    \* the static counter of fletcher_4_impl_get, 16-bit limbs <<lo, hi>>
    bench,      \* fletcher_4_kstat_data
    wr,         \* the latest call that could store into the selector: the
                \* writer's fletcher_4_impl_set, or fletcher_4_init with its
                \* benchmark counts (instrumentation)
    rd,         \* the threads inside fletcher_4_native / fletcher_4_byteswap
    hist,       \* the kernels fletcher_4_impl_get returned in cycle mode, in order
    zc,         \* a caller's zio_cksum_t, words of four 16-bit limbs
    ck          \* how zc was fed since it was last set (instrumentation)

dvars == <<bmap, dmap, last, pcm>>
fvars == <<cfg, phase, fletcher_4_chosen, fletcher_4_fastest, fletcher_4_impl_selector,
           fletcher_4_impl_selector_lock, cycle_count, bench, wr, rd, hist>>
cvars == <<zc, ck>>
vars == <<bmap, dmap, last, pcm, cfg, phase, fletcher_4_chosen, fletcher_4_fastest,
          fletcher_4_impl_selector, fletcher_4_impl_selector_lock, cycle_count, bench,
          wr, rd, hist, zc, ck>>

NoMap == [ndevs |-> 0]
NoCall == [op |-> "none"]
EmptyArr == [x \in {} |-> 0]

\* ================================================================ draid.c
Tags == 0..MaxTag

SortSwapLossy(tmp, i, j) == [tmp EXCEPT ![i] = tmp[j]]

\* lines 61-63: exchange tmp[i] and tmp[j] through temp
SortSwap(tmp, i, j) == [tmp EXCEPT ![i] = tmp[j], ![j] = tmp[i]]

RECURSIVE SortInnerGe(_, _, _, _)
SortInnerGe(tmp, i, j, n) ==
    IF j >= n THEN tmp
    ELSE SortInnerGe(IF tmp[i].order >= tmp[j].order THEN SortSwap(tmp, i, j) ELSE tmp,
                     i, j + 1, n)

\* lines 59-64: the inner loop of the exchange sort
RECURSIVE SortInner(_, _, _, _)
SortInner(tmp, i, j, n) ==
    IF j >= n THEN tmp
    ELSE SortInner(IF tmp[i].order > tmp[j].order THEN SortSwap(tmp, i, j) ELSE tmp,
                   i, j + 1, n)

\* lines 58-64: the outer loop of the exchange sort
RECURSIVE SortOuter(_, _, _)
SortOuter(tmp, i, n) ==
    IF i >= n THEN tmp ELSE SortOuter(SortInner(tmp, i, i + 1, n), i + 1, n)

\* lines 67-70: out[i] = tmp[i].value
RECURSIVE CopyOut(_, _, _)
CopyOut(tmp, i, n) ==
    IF i >= n THEN EmptyArr ELSE (i :> tmp[i].value) @@ CopyOut(tmp, i + 1, n)

\* permute_devs(in, out, ndevs); tags[i] is the i-th value mrand48() returns
permute_devs(in, tags, ndevs) ==
    IF ndevs = 2
    THEN (0 :> in[1]) @@ (1 :> in[0])
    ELSE LET tmp == [i \in 0..(ndevs - 1) |-> [value |-> in[i], order |-> tags[i]]]
         IN  CopyOut(SortOuter(tmp, 0, ndevs), 0, ndevs)

\* lines 91-102: rows 0..i; row 0 is the identity, row i permutes row i-1
RECURSIVE RowsUpTo(_, _, _)
RowsUpTo(i, ndevs, tags) ==
    IF i = 0 THEN (0 :> [j \in 0..(ndevs - 1) |-> j])
    ELSE LET rows == RowsUpTo(i - 1, ndevs, tags)
         IN  rows @@ (i :> permute_devs(rows[i - 1], tags[i], ndevs))

\* new_map(ndevs, ngroups, nspares, nrows); tags[i] are the draws made for row i.
\* broken is malloc'ed and not initialised: it is a function on the indices
\* written so far.
new_map(ndevs, ngroups, nspares, nrows, tags) ==
    [ndevs   |-> ndevs,
     ngroups |-> ngroups,
     groupsz |-> [i \in 0..(ngroups - 1) |-> (ndevs - nspares) \div ngroups],
     nspares |-> nspares,
     nrows   |-> nrows,
     rows    |-> RowsUpTo(nrows - 1, ndevs, tags),
     nbroken |-> 0,
     broken  |-> EmptyArr]

\* The draws a new_map call makes: none when ndevs = 2 (lines 42-48 return
\* before mrand48 is called), one per slot of every row after the first otherwise.
TagDraws(ndevs, nrows) ==
    IF ndevs = 2 THEN {[i \in 1..(nrows - 1) |-> EmptyArr]}
    ELSE [1..(nrows - 1) -> [0..(ndevs - 1) -> Tags]]

develop_map_noshift(bm, dmap0) ==
    [base |-> bm,
     dev  |-> [dmap0 EXCEPT !.rows =
                [r \in 0..(bm.nrows * bm.ndevs - 1) |->
                    [j \in 0..(bm.ndevs - 1) |->
                        (bm.rows[r \div bm.ndevs][j] + 1) % bm.ndevs]]]]

\* develop_map(bmap): dmap0 is what the inner new_map call returned (line 112);
\* row base * ndevs + add is written at line 118. The result is the pair of
\* maps the caller holds afterwards.
develop_map(bm, dmap0) ==
    [base |-> bm,
     dev  |-> [dmap0 EXCEPT !.rows =
                [r \in 0..(bm.nrows * bm.ndevs - 1) |->
                    [j \in 0..(bm.ndevs - 1) |->
                        (bm.rows[r \div bm.ndevs][j] + (r % bm.ndevs)) % bm.ndevs]]]]

\* is_broken(map, dev)
is_broken(m, dev) == \E i \in 0..(m.nbroken - 1) : dev = m.broken[i]

\* lines 188-192: the cursor moves to the first slot at or after it whose
\* device is not broken; the value ndevs stands for a failed
\* assert(spareIndex < ndevs)
FindSpare(m, row, s) ==
    LET ok == {t \in s..(m.ndevs - 1) : ~is_broken(m, row[t])}
    IN  IF ok = {} THEN m.ndevs ELSE CHOOSE t \in ok : \A u \in ok : t <= u

SpareStartOff(m) == m.ndevs - m.nspares + 1

\* line 180: where the spare cursor starts
SpareStart(m) == m.ndevs - m.nspares

NoIo == [log |-> {}, asserted |-> FALSE]

\* lines 183-195: slot index + k of group j in row i. An event of acc.log is
\* one increment of reads[dev] or writes[dev]; at is the slot the device was
\* taken from.
SlotStep(m, i, j, index, k, spareIndex, acc) ==
    LET row == m.rows[i]
        dev == row[index + k]
        s == FindSpare(m, row, spareIndex)
    IN  IF ~is_broken(m, dev)
        THEN [acc EXCEPT !.log = @ \cup
                {[row |-> i, group |-> j, slot |-> index + k,
                  kind |-> "read", dev |-> dev, at |-> index + k]}]
        ELSE IF s >= m.ndevs THEN [acc EXCEPT !.asserted = TRUE]
        ELSE [acc EXCEPT !.log = @ \cup
                {[row |-> i, group |-> j, slot |-> index + k,
                  kind |-> "write", dev |-> row[s], at |-> s]}]

\* line 194: spareIndex++ after a write
NextSpare(m, i, index, k, spareIndex) ==
    IF is_broken(m, m.rows[i][index + k])
    THEN FindSpare(m, m.rows[i], spareIndex) + 1
    ELSE spareIndex

\* lines 182-196: the slots of a group that has a broken device
RECURSIVE GroupLoop(_, _, _, _, _, _, _)
GroupLoop(m, i, j, index, k, spareIndex, acc) ==
    IF acc.asserted \/ k >= m.groupsz[j] THEN acc
    ELSE GroupLoop(m, i, j, index, k + 1, NextSpare(m, i, index, k, spareIndex),
                   SlotStep(m, i, j, index, k, spareIndex, acc))

\* lines 167, 176, 197: index when the loop reaches group j
RECURSIVE IndexAt(_, _)
IndexAt(m, j) == IF j = 0 THEN 0 ELSE IndexAt(m, j - 1) + m.groupsz[j - 1]

\* lines 169-198: group j of row i; the cursor is set at line 180, for every
\* group that has a broken device
GroupRun(m, i, j) ==
    LET index == IndexAt(m, j)
        fix == \E k \in 0..(m.groupsz[j] - 1) : is_broken(m, m.rows[i][index + k])
    IN  IF ~fix THEN NoIo
        ELSE GroupLoop(m, i, j, index, 0, SpareStart(m), NoIo)

CountLog(log, kind, d) == Cardinality({e \in log : e.kind = kind /\ e.dev = d})

\* lines 202-212: the largest reads[i] + writes[i]
MaxIos(reads, writes, ndevs) ==
    IF ndevs = 0 THEN 0
    ELSE LET v == {reads[d] + writes[d] : d \in 0..(ndevs - 1)}
         IN  CHOOSE x \in v \cup {0} : \A y \in v \cup {0} : y <= x

\* lines 164-199: every group of every row
GroupRuns(m) ==
    {GroupRun(m, i, j) : i \in 0..(m.nrows - 1), j \in 0..(m.ngroups - 1)}

\* lines 159-160 and 202-212: reads[], writes[] and the maximum, from what the
\* groups did. A failed assert ends the process, and nothing of the call is
\* left.
ResilverOf(m, runs) ==
    LET asserted == \E r \in runs : r.asserted
        log == IF asserted THEN {} ELSE UNION {r.log : r \in runs}
        reads == [d \in 0..(m.ndevs - 1) |-> CountLog(log, "read", d)]
        writes == [d \in 0..(m.ndevs - 1) |-> CountLog(log, "write", d)]
    IN  [asserted |-> asserted, log |-> log,
         reads |-> reads, writes |-> writes,
         max_ios |-> MaxIos(reads, writes, m.ndevs)]

\* eval_resilver(map, print)
eval_resilver(m) ==
    CHOOSE res \in {ResilverOf(m, runs) : runs \in {GroupRuns(m)}} : TRUE

\* a store to map->broken[k]
SetBrokenAt(m, k, v) ==
    [m EXCEPT !.broken = (k :> v) @@ @]

\* What the model keeps of map->broken: entries at or beyond nbroken are never
\* read (is_broken, line 138) until a caller stores them again.
Live(m) == [m EXCEPT !.broken = [x \in (DOMAIN @) \cap (0..(m.nbroken - 1)) |-> @[x]]]

\* lines 241 and 256: the values f1 and f2 take; f2 is -1 where there is no
\* second fault
FaultPairs(m, faults) ==
    IF faults < 2 THEN {<<f1, -1>> : f1 \in 0..(m.ndevs - 1)}
    ELSE {p \in (0..(m.ndevs - 1)) \X (0..(m.ndevs - 1)) : p[1] < p[2]}

\* lines 240, 242, 258: the map eval_resilver is called on at f1, f2
FaultMap(m, faults, f1, f2) ==
    LET m1 == SetBrokenAt([m EXCEPT !.nbroken = faults], 0, f1)
    IN  IF f2 < 0 THEN m1 ELSE SetBrokenAt(m1, 1, f2)

\* lines 246 and 259: ios of every evaluation of the loops
FaultEvals(m, faults) ==
    UNION {{[f1 |-> p[1], f2 |-> p[2], asserted |-> r.asserted, ios |-> r.max_ios] :
                r \in {eval_resilver(FaultMap(m, faults, p[1], p[2]))}} :
           p \in FaultPairs(m, faults)}

\* lines 248-249 and 261-262: the sum of w over the evaluations
SumOver(evals, w(_)) ==
    Cardinality(UNION {{<<e.f1, e.f2, t>> : t \in 1..w(e)} : e \in evals})

\* lines 250-253 and 263-267: max_ios, and the first f1, f2 that reached it
Worst(evals) ==
    LET top == CHOOSE x \in {e.ios : e \in evals} \cup {0} :
                   \A e \in evals : e.ios <= x
        at == {e \in evals : e.ios = top}
        e0 == CHOOSE e \in at : \A o \in at :
                  e.f1 < o.f1 \/ (e.f1 = o.f1 /\ e.f2 <= o.f2)
    IN  IF top = 0 THEN [max_ios |-> 0, worst1 |-> -1, worst2 |-> -1]
        ELSE [max_ios |-> top, worst1 |-> e0.f1, worst2 |-> e0.f2]

\* line 272
ResetNbroken(m) == [m EXCEPT !.nbroken = 0]

Ios(e) == e.ios

IosSq(e) == e.ios * e.ios

\* lines 231-237 and 272-286 of eval_decluster, from the evaluations of its
\* loops: the map it leaves and what it did.
\* val is the returned double (val / nrows) * ngroups as a fraction num / den,
\* under a square root when root is set. wrote is the set of indices of
\* broken[] that were stored to.
DeclusterOf(m, how, faults, evals) ==
    LET mf == FaultMap(m, faults, m.ndevs - 1, IF faults < 2 THEN -1 ELSE m.ndevs - 1)
        w == Worst(evals)
        iter_num == Cardinality(evals)
        base == [op |-> "decluster", how |-> how, faults |-> faults]
        done == [iter_num |-> iter_num, max_ios |-> w.max_ios,
                 worst1 |-> w.worst1, worst2 |-> w.worst2,
                 wrote |-> {0} \cup {k \in {1} : \E e \in evals : e.f2 >= 0},
                 nbroken |-> ResetNbroken(mf).nbroken]
    IN  IF \E e \in evals : e.asserted
        THEN [map |-> [m EXCEPT !.nbroken = faults],
              did |-> base @@ [status |-> "exhausted"]]
        ELSE IF how \notin {0, 1, 2}
        THEN [map |-> ResetNbroken(mf), did |-> base @@ done @@ [status |-> "badhow"]]
        ELSE [map |-> ResetNbroken(mf),
              did |-> base @@ done @@
                [status |-> "returned",
                 root |-> (how = 2),
                 num |-> CASE how = 0 -> w.max_ios * m.ngroups
                           [] how = 1 -> SumOver(evals, Ios) * m.ngroups
                           [] how = 2 -> SumOver(evals, IosSq) * m.ngroups * m.ngroups,
                 den |-> CASE how = 0 -> m.nrows
                           [] how = 1 -> iter_num * m.nrows
                           [] how = 2 -> iter_num * m.nrows * m.nrows]]

\* eval_decluster(map, how, faults, print)
eval_decluster(m, how, faults) ==
    CHOOSE res \in {DeclusterOf(m, how, faults, evals) :
                        evals \in {FaultEvals(m, faults)}} : TRUE

\* ---------------------------------------------------------------- actions
\* The shapes a caller hands to new_map.
Shapes ==
    {s \in [ndevs : 2..MaxDevs, ngroups : 1..MaxDevs, nspares : 0..MaxDevs] :
        /\ s.nspares < s.ndevs
        /\ s.ngroups <= s.ndevs - s.nspares}

TheMap(which) == IF which = "base" THEN bmap ELSE dmap

PutMap(which, m) ==
    /\ bmap' = IF which = "base" THEN m ELSE bmap
    /\ dmap' = IF which = "base" THEN dmap ELSE m

\* the distinct device ids a caller marks broken, stored in ascending order
BrokenArr(S) ==
    LET RECURSIVE Fill(_, _, _)
        Fill(T, k, arr) ==
            IF T = {} THEN arr
            ELSE LET d == CHOOSE x \in T : \A y \in T : x <= y
                 IN  Fill(T \ {d}, k + 1, arr @@ (k :> d))
    IN  Fill(S, 0, EmptyArr)

NewMap ==
    /\ pcm = "run" /\ bmap = NoMap
    /\ \E s \in Shapes, nrows \in 1..MaxCells :
         /\ nrows * s.ndevs <= MaxCells
         /\ \E tags \in TagDraws(s.ndevs, nrows) :
              bmap' = new_map(s.ndevs, s.ngroups, s.nspares, nrows, tags)
    /\ UNCHANGED <<dmap, last, pcm>>
    /\ UNCHANGED <<fvars, cvars>>

\* The draws of develop_map's inner new_map call (line 112), whose rows lines
\* 114-123 overwrite: one vector, used for every row, all tags equal or descending.
DevelopDraws(ndevs) ==
    IF ndevs = 2 THEN {EmptyArr}
    ELSE {[k \in 0..(ndevs - 1) |-> 0],
          [k \in 0..(ndevs - 1) |-> MaxTag - (k % (MaxTag + 1))]}

DevelopMap ==
    /\ pcm = "run" /\ bmap # NoMap /\ dmap = NoMap
    /\ \E t \in DevelopDraws(bmap.ndevs) :
         LET r == develop_map(bmap,
                    new_map(bmap.ndevs, bmap.ngroups, bmap.nspares,
                            bmap.nrows * bmap.ndevs,
                            [i \in 1..(bmap.nrows * bmap.ndevs - 1) |-> t]))
         IN  bmap' = r.base /\ dmap' = r.dev
    /\ last' = [op |-> "develop", base |-> bmap]
    /\ UNCHANGED <<pcm, fvars, cvars>>

\* a caller stores a set of distinct failed devices and calls eval_resilver
EvalResilver ==
    /\ pcm = "run"
    /\ \E which \in {"base", "dev"} :
         /\ TheMap(which) # NoMap
         /\ \E S \in SUBSET (0..(TheMap(which).ndevs - 1)) :
              /\ Cardinality(S) <= TheMap(which).nspares
              /\ \E m \in {[TheMap(which) EXCEPT
                              !.nbroken = Cardinality(S),
                              !.broken = BrokenArr(S) @@ @]} :
                   \E r \in {eval_resilver(m)} :
                      /\ PutMap(which, Live(m))
                      /\ last' = [op |-> "resilver", which |-> which] @@ r
                      /\ pcm' = IF r.asserted THEN "aborted" ELSE "done"
    /\ UNCHANGED <<fvars, cvars>>

\* how is EVAL_WORST, EVAL_MEAN, EVAL_RMS (lines 13-15) or a value the switch
\* at line 273 does not know. With faults > nspares the stores at lines 242
\* and 258 run past the nspares ints allocated at line 106: the store lands in
\* the allocator's slack and the call goes on, or the process dies there.
EvalDecluster ==
    /\ pcm = "run"
    /\ \E which \in {"base", "dev"}, how \in 0..3, faults \in 1..2 :
         /\ TheMap(which) # NoMap
         /\ \/ \E r \in {eval_decluster(TheMap(which), how, faults)} :
                   /\ PutMap(which, Live(r.map))
                   /\ last' = [which |-> which] @@ r.did
                   /\ pcm' = IF r.did.status = "returned" THEN "done" ELSE "aborted"
            \/ /\ faults > TheMap(which).nspares
               /\ PutMap(which, [TheMap(which) EXCEPT !.nbroken = faults])
               /\ last' = [op |-> "decluster", which |-> which, how |-> how,
                           faults |-> faults, status |-> "overrun"]
               /\ pcm' = "aborted"
    /\ UNCHANGED <<fvars, cvars>>

\* free_map on both maps (lines 128-134, 306-307)
FreeMaps ==
    /\ pcm \in {"run", "done"} /\ bmap # NoMap
    /\ bmap' = NoMap /\ dmap' = NoMap /\ last' = NoCall /\ pcm' = "run"
    /\ UNCHANGED <<fvars, cvars>>

\* a new process after abort()
Restart ==
    /\ pcm = "aborted"
    /\ bmap' = NoMap /\ dmap' = NoMap /\ last' = NoCall /\ pcm' = "run"
    /\ UNCHANGED <<fvars, cvars>>

DInit == bmap = NoMap /\ dmap = NoMap /\ last = NoCall /\ pcm = "run"

\* ------------------------------------------------- permute_devs on its own
\* the rows permute_devs is handed: new_map passes rows[i - 1], a permutation
\* of the device ids
InRows(ndevs) ==
    {row \in [0..(ndevs - 1) -> 0..(ndevs - 1)] :
        \A a, b \in 0..(ndevs - 1) : row[a] = row[b] => a = b}

\* the values mrand48() returns during one call: none with two devices
\* (lines 42-48 return first), one per slot otherwise
CallDraws(ndevs) ==
    IF ndevs = 2 THEN {EmptyArr} ELSE [0..(ndevs - 1) -> Tags]

\* permute_devs is called: its arguments, and the draws it will make
PermuteCall ==
    /\ pcm = "run" /\ last = NoCall /\ bmap = NoMap
    /\ \E n \in 2..MaxDevs : \E row \in InRows(n), t \in CallDraws(n) :
         last' = [op |-> "call", ndevs |-> n, in |-> row, tags |-> t]
    /\ UNCHANGED <<bmap, dmap, pcm, fvars, cvars>>

\* permute_devs(in, out, ndevs) runs: last keeps its arguments, its draws and out[]
PermuteDevs ==
    /\ pcm = "run" /\ last.op = "call"
    /\ last' = [op |-> "permute_devs", ndevs |-> last.ndevs, in |-> last.in,
                tags |-> last.tags,
                out |-> permute_devs(last.in, last.tags, last.ndevs)]
    /\ pcm' = "done"
    /\ UNCHANGED <<bmap, dmap, fvars, cvars>>

\* ======================================================== zfs_fletcher.c
\* ------------------------------------------------------------ checksums
\* A uint64_t is <<l0, l1, l2, l3>>, 16-bit limbs, least significant first; a
\* uint32_t input word is <<lo, hi>>.
U64Zero == <<0, 0, 0, 0>>
U64Ones == <<65535, 65535, 65535, 65535>>

\* uint64_t addition: the carry out of the top limb is dropped (mod 2^64)
RECURSIVE AddLimbs(_, _, _, _)
AddLimbs(x, y, i, carry) ==
    IF i > 4 THEN <<>>
    ELSE LET t == x[i] + y[i] + carry
         IN  <<t % 65536>> \o AddLimbs(x, y, i + 1, t \div 65536)

Add64(x, y) == AddLimbs(x, y, 1, 0)

\* the conversion of ip[0] (uint32_t) to uint64_t at lines 236 and 258
Widen(w) == <<w[1], w[2], 0, 0>>

Swap16(h) == (h % 256) * 256 + (h \div 256)

\* BSWAP_32
BSWAP_32(w) == <<Swap16(w[2]), Swap16(w[1])>>

\* lines 236-239 and 258-261: one round of the loop on the word f
Round(s, f) ==
    LET a == Add64(s[1], Widen(f))
        b == Add64(s[2], a)
        c == Add64(s[3], b)
        d == Add64(s[4], c)
    IN  <<a, b, c, d>>

\* fletcher_4_scalar_init
fletcher_4_scalar_init == <<U64Zero, U64Zero, U64Zero, U64Zero>>

RECURSIVE ScalarFromZero(_, _, _)
ScalarFromZero(buf, i, s) ==
    IF i > Len(buf) THEN s
    ELSE ScalarFromZero(buf, i + 1,
            Round(IF i = 1 THEN fletcher_4_scalar_init ELSE s, buf[i]))

\* fletcher_4_scalar(buf, size, zcp): a, b, c, d start from zcp (lines 230-233)
RECURSIVE fletcher_4_scalar(_, _, _)
fletcher_4_scalar(buf, i, s) ==
    IF i > Len(buf) THEN s ELSE fletcher_4_scalar(buf, i + 1, Round(s, buf[i]))

\* fletcher_4_scalar_byteswap(buf, size, zcp)
RECURSIVE fletcher_4_scalar_byteswap(_, _, _)
fletcher_4_scalar_byteswap(buf, i, s) ==
    IF i > Len(buf) THEN s
    ELSE fletcher_4_scalar_byteswap(buf, i + 1, Round(s, BSWAP_32(buf[i])))

\* --------------------------------------------------------- the registry
NullFn == [of |-> "NULL", fn |-> "NULL"]

\* lines 141-146: fletcher_4_scalar_calls; .fini and .valid are not set
fletcher_4_scalar_calls ==
    [name |-> "scalar",
     init |-> [of |-> "scalar", fn |-> "init"],
     compute |-> [of |-> "scalar", fn |-> "compute"],
     compute_byteswap |-> [of |-> "scalar", fn |-> "compute_byteswap"],
     fini |-> NullFn,
     valid |-> NullFn]

\* fletcher_4_avx2_calls (line 151): the descriptor of the SIMD kernel, with
\* its own fini and valid probe
fletcher_4_avx2_calls ==
    [name |-> "avx2",
     init |-> [of |-> "avx2", fn |-> "init"],
     compute |-> [of |-> "avx2", fn |-> "compute"],
     compute_byteswap |-> [of |-> "avx2", fn |-> "compute_byteswap"],
     fini |-> [of |-> "avx2", fn |-> "fini"],
     valid |-> [of |-> "avx2", fn |-> "valid"]]

\* what a pointer to a descriptor points to
Desc(p) == IF p = "scalar" THEN fletcher_4_scalar_calls ELSE fletcher_4_avx2_calls

\* lines 148-153, as pointers
fletcher_4_algos == IF cfg.avx2 THEN (0 :> "scalar" @@ 1 :> "avx2") ELSE (0 :> "scalar")

ARRAY_SIZE(arr) == Cardinality(DOMAIN arr)

\* algo->valid == NULL || algo->valid()   (lines 320, 388)
IsValid(p) == Desc(p).valid = NullFn \/ cfg.avx2ok

\* lines 158-165
FLETCHER_FASTEST == 0
FLETCHER_SCALAR == 1
FLETCHER_AVX2 == 2
FLETCHER_CYCLE == IF cfg.avx2 THEN 3 ELSE 2

N_fastest == <<"f", "a", "s", "t", "e", "s", "t">>
N_scalar == <<"s", "c", "a", "l", "a", "r">>
N_avx2 == <<"a", "v", "x", "2">>
N_cycle == <<"c", "y", "c", "l", "e">>

\* lines 167-176
selector_names ==
    LET names == <<N_fastest, N_scalar>>
                 \o (IF cfg.avx2 THEN <<N_avx2>> ELSE <<>>)
                 \o (IF cfg.kernel THEN <<>> ELSE <<N_cycle>>)
    IN  [i \in 0..(Len(names) - 1) |-> names[i + 1]]

\* the char at offset i of a C string; its terminator is "NUL"
CharAt(str, i) == IF i < Len(str) THEN str[i + 1] ELSE "NUL"

\* strncmp(s1, s2, n) = 0
RECURSIVE strncmp_eq(_, _, _, _)
strncmp_eq(s1, s2, n, i) ==
    IF i >= n THEN TRUE
    ELSE IF CharAt(s1, i) # CharAt(s2, i) THEN FALSE
    ELSE IF CharAt(s1, i) = "NUL" THEN TRUE
    ELSE strncmp_eq(s1, s2, n, i + 1)

\* lines 272-278: the value of i when the loop ends
RECURSIVE LookupLoop(_, _)
LookupLoop(selector, i) ==
    IF i >= ARRAY_SIZE(selector_names) THEN i
    ELSE IF strncmp_eq(selector, selector_names[i], Len(selector_names[i]), 0) THEN i
    ELSE LookupLoop(selector, i + 1)

NoIdx == -1

SetLookupNoCheck(selector) ==
    LET i == LookupLoop(selector, 0)
    IN  IF i >= ARRAY_SIZE(selector_names) THEN FLETCHER_FASTEST ELSE i

\* lines 272-280: the index found, or NoIdx for return (-EINVAL)
SetLookup(selector) ==
    LET i == LookupLoop(selector, 0)
    IN  IF i >= ARRAY_SIZE(selector_names) THEN NoIdx ELSE i

\* lines 286-299: the value the switch stores into fletcher_4_chosen
SetTarget(idx, fastest, chosen) ==
    CASE idx = FLETCHER_FASTEST -> fastest
      [] cfg.avx2 /\ idx = FLETCHER_AVX2 -> "avx2"
      [] idx = FLETCHER_SCALAR \/ idx = FLETCHER_CYCLE -> "scalar"
      [] OTHER -> chosen

\* ------------------------------------------------------ init and fini
ValidIdx == {i \in DOMAIN fletcher_4_algos : IsValid(fletcher_4_algos[i])}

\* lines 377-415: best_run_index when the loop ends
RECURSIVE BenchLoop(_, _, _, _)
BenchLoop(i, best_run_count, best_run_index, counts) ==
    IF i >= ARRAY_SIZE(fletcher_4_algos) THEN best_run_index
    ELSE IF ~IsValid(fletcher_4_algos[i])
    THEN BenchLoop(i + 1, best_run_count, best_run_index, counts)
    ELSE IF counts[i] > best_run_count
    THEN BenchLoop(i + 1, counts[i], i, counts)
    ELSE BenchLoop(i + 1, best_run_count, best_run_index, counts)

\* lines 386 and 413-414: stat->value.ui64
StatValue(run_count) ==
    (4096 * run_count * (1000000000 \div (50 * 1000000))) \div 1048576

\* a thread outside the module: no algo, and no kernel's function called yet.
\* first is the kernel whose function the current call invoked first, mixed is
\* set once a call has invoked functions of two kernels, fresh tells that the
\* call began after the last fletcher_4_impl_set returned and that no
\* fletcher_4_impl_set was called since.
IdleReader ==
    [pc |-> "idle", algo |-> "NULL", first |-> "NULL", mixed |-> FALSE, fresh |-> FALSE]

Quiescent == wr.pc = "idle" /\ \A r \in DOMAIN rd : rd[r].pc = "idle"

\* fletcher_4_init(), run while no other thread is inside the module. counts[i]
\* is run_count of kernel i; bench is fletcher_4_kstat_data, and wr, the record
\* of the last call that could store into the selector, keeps counts. The call of fletcher_4_impl_set("fastest") at line
\* 421 is the code of lines 272-304.
FletcherInit ==
    /\ phase = "down"
    /\ \E counts \in [ValidIdx -> 1..MaxRun] :
         LET fastest == fletcher_4_algos[BenchLoop(0, 0, 0, counts)]
             idx == SetLookup(N_fastest)
             same == (fletcher_4_impl_selector = idx)
         IN  /\ fletcher_4_fastest' = fastest
             /\ bench' = [i \in DOMAIN fletcher_4_algos |->
                            [ui64 |-> IF i \in ValidIdx THEN StatValue(counts[i]) ELSE 0]]
             /\ fletcher_4_chosen' =
                    IF same THEN fletcher_4_chosen
                    ELSE SetTarget(idx, fastest, fletcher_4_chosen)
             /\ fletcher_4_impl_selector' = IF same THEN fletcher_4_impl_selector ELSE idx
             /\ wr' = [pc |-> "idle", by |-> "init", name |-> N_fastest, idx |-> idx,
                       ret |-> "ok", tookLock |-> ~same, counts |-> counts]
    /\ fletcher_4_impl_selector_lock' = "free"
    /\ phase' = "ready"
    /\ UNCHANGED <<cfg, cycle_count, rd, hist, dvars, cvars>>

\* fletcher_4_fini()
FletcherFini ==
    /\ phase = "ready" /\ Quiescent
    /\ fletcher_4_impl_selector_lock' = "destroyed"
    /\ phase' = "down"
    /\ UNCHANGED <<cfg, fletcher_4_chosen, fletcher_4_fastest, fletcher_4_impl_selector,
                   cycle_count, bench, wr, rd, hist, dvars, cvars>>

\* -------------------------------------------- fletcher_4_impl_set, by steps
SetNames ==
    {N_fastest, N_scalar, N_avx2, N_cycle, N_scalar \o <<"x">>, <<"s", "c", "a">>}

\* lines 272-283: the lookup, return (-EINVAL), and the early return (0)
SetCall ==
    /\ phase = "ready" /\ wr.pc = "idle"
    /\ \E selector \in SetNames :
         LET idx == SetLookup(selector)
         IN  wr' = [by |-> "writer", name |-> selector, idx |-> idx, tookLock |-> FALSE,
                    counts |-> <<>>,
                    pc |-> IF idx = NoIdx \/ fletcher_4_impl_selector = idx
                           THEN "idle" ELSE "enter",
                    ret |-> IF idx = NoIdx THEN "EINVAL"
                            ELSE IF fletcher_4_impl_selector = idx THEN "ok" ELSE "none"]
    /\ rd' = [r \in DOMAIN rd |-> [rd[r] EXCEPT !.fresh = FALSE]]
    /\ UNCHANGED <<cfg, phase, fletcher_4_chosen, fletcher_4_fastest,
                   fletcher_4_impl_selector, fletcher_4_impl_selector_lock,
                   cycle_count, bench, hist, dvars, cvars>>

\* line 285: mutex_enter
SetLock ==
    /\ wr.pc = "enter" /\ fletcher_4_impl_selector_lock = "free"
    /\ fletcher_4_impl_selector_lock' = "held"
    /\ wr' = [wr EXCEPT !.pc = "locked", !.tookLock = TRUE]
    /\ UNCHANGED <<cfg, phase, fletcher_4_chosen, fletcher_4_fastest,
                   fletcher_4_impl_selector, cycle_count, bench, rd, hist, dvars, cvars>>

\* lines 286-299: the store into fletcher_4_chosen
SetChosen ==
    /\ wr.pc = "locked"
    /\ fletcher_4_chosen' = SetTarget(wr.idx, fletcher_4_fastest, fletcher_4_chosen)
    /\ wr' = [wr EXCEPT !.pc = "stored"]
    /\ UNCHANGED <<cfg, phase, fletcher_4_fastest, fletcher_4_impl_selector,
                   fletcher_4_impl_selector_lock, cycle_count, bench, rd, hist,
                   dvars, cvars>>

\* line 301
SetSelector ==
    /\ wr.pc = "stored"
    /\ fletcher_4_impl_selector' = wr.idx
    /\ wr' = [wr EXCEPT !.pc = "unlock"]
    /\ UNCHANGED <<cfg, phase, fletcher_4_chosen, fletcher_4_fastest,
                   fletcher_4_impl_selector_lock, cycle_count, bench, rd, hist,
                   dvars, cvars>>

\* lines 302-304: mutex_exit and return (0)
SetUnlock ==
    /\ wr.pc = "unlock"
    /\ fletcher_4_impl_selector_lock' = "free"
    /\ wr' = [wr EXCEPT !.pc = "idle", !.ret = "ok"]
    /\ UNCHANGED <<cfg, phase, fletcher_4_chosen, fletcher_4_fastest,
                   fletcher_4_impl_selector, cycle_count, bench, rd, hist, dvars, cvars>>

\* ----------------------- fletcher_4_native / fletcher_4_byteswap, by steps
\* r1 calls fletcher_4_native, r2 calls fletcher_4_byteswap
Readers == {"r1", "r2"}

VariantOf(r) == IF r = "r1" THEN "native" ELSE "byteswap"

\* unsigned int arithmetic on <<lo, hi>>
Inc32(c) ==
    IF c[1] < 65535 THEN <<c[1] + 1, c[2]>>
    ELSE IF c[2] < 65535 THEN <<0, c[2] + 1>>
    ELSE <<0, 0>>

Mod32(c, n) == ((c[2] % n) * (65536 % n) + (c[1] % n)) % n

CycleAlgoFirst(index) == fletcher_4_algos[0]

\* lines 318-319
CycleAlgo(index) == fletcher_4_algos[Mod32(index, ARRAY_SIZE(fletcher_4_algos))]

ReaderAlgoReload(r) == fletcher_4_chosen

\* the local variable algo of lines 333 and 344
ReaderAlgo(r) == rd[r].algo

\* thread r calls the function pointer fn
Invoke(r, fn) ==
    [rd[r] EXCEPT !.first = IF @ = "NULL" THEN fn.of ELSE @,
                  !.mixed = @ \/ (rd[r].first # "NULL" /\ rd[r].first # fn.of)]

\* the call, and line 311: the test of the selector (not compiled with _KERNEL)
ReaderCall(r) ==
    /\ phase = "ready" /\ rd[r].pc = "idle"
    /\ rd' = [rd EXCEPT ![r].pc =
                  IF ~cfg.kernel /\ fletcher_4_impl_selector = FLETCHER_CYCLE
                  THEN "cycle" ELSE "load",
                         ![r].fresh = (wr.pc = "idle")]
    /\ UNCHANGED <<cfg, phase, fletcher_4_chosen, fletcher_4_fastest,
                   fletcher_4_impl_selector, fletcher_4_impl_selector_lock,
                   cycle_count, bench, wr, hist, dvars, cvars>>

\* lines 316-323: one turn of the loop; atomic_inc_uint_nv returns the new value
ReaderCycle(r) ==
    /\ rd[r].pc = "cycle"
    /\ cycle_count[2] = 0 /\ cycle_count[1] < MaxCycle
    /\ LET index == Inc32(cycle_count)
           algo == CycleAlgo(index)
       IN  /\ cycle_count' = index
           /\ IF IsValid(algo)
              THEN /\ rd' = [rd EXCEPT ![r].pc = "got", ![r].algo = algo]
                   /\ hist' = Append(hist, [index |-> index, algo |-> algo])
              ELSE UNCHANGED <<rd, hist>>
    /\ UNCHANGED <<cfg, phase, fletcher_4_chosen, fletcher_4_fastest,
                   fletcher_4_impl_selector, fletcher_4_impl_selector_lock,
                   bench, wr, dvars, cvars>>

\* lines 326-327: membar_producer(); return (fletcher_4_chosen)
ReaderLoad(r) ==
    /\ rd[r].pc = "load"
    /\ rd' = [rd EXCEPT ![r].pc = "got", ![r].algo = fletcher_4_chosen]
    /\ UNCHANGED <<cfg, phase, fletcher_4_chosen, fletcher_4_fastest,
                   fletcher_4_impl_selector, fletcher_4_impl_selector_lock,
                   cycle_count, bench, wr, hist, dvars, cvars>>

\* lines 335 and 346: algo->init(zcp)
ReaderInit(r) ==
    /\ rd[r].pc = "got"
    /\ rd' = [rd EXCEPT ![r] = [Invoke(r, Desc(ReaderAlgo(r)).init) EXCEPT
                                  !.pc = "inited"]]
    /\ UNCHANGED <<cfg, phase, fletcher_4_chosen, fletcher_4_fastest,
                   fletcher_4_impl_selector, fletcher_4_impl_selector_lock,
                   cycle_count, bench, wr, hist, dvars, cvars>>

\* lines 336 and 347: algo->compute(...) or algo->compute_byteswap(...)
ReaderCompute(r) ==
    /\ rd[r].pc = "inited"
    /\ rd' = [rd EXCEPT ![r] =
                [Invoke(r, IF VariantOf(r) = "native"
                           THEN Desc(ReaderAlgo(r)).compute
                           ELSE Desc(ReaderAlgo(r)).compute_byteswap)
                 EXCEPT !.pc = "computed"]]
    /\ UNCHANGED <<cfg, phase, fletcher_4_chosen, fletcher_4_fastest,
                   fletcher_4_impl_selector, fletcher_4_impl_selector_lock,
                   cycle_count, bench, wr, hist, dvars, cvars>>

\* lines 337-338 and 348-349: algo->fini(zcp) when there is one, and the return
ReaderFini(r) ==
    /\ rd[r].pc = "computed"
    /\ rd' = [rd EXCEPT ![r] =
                [(IF Desc(ReaderAlgo(r)).fini = NullFn THEN rd[r]
                  ELSE Invoke(r, Desc(ReaderAlgo(r)).fini))
                 EXCEPT !.pc = "idle", !.algo = "NULL", !.first = "NULL", !.fresh = FALSE]]
    /\ UNCHANGED <<cfg, phase, fletcher_4_chosen, fletcher_4_fastest,
                   fletcher_4_impl_selector, fletcher_4_impl_selector_lock,
                   cycle_count, bench, wr, hist, dvars, cvars>>

\* --------------------------------- the incremental calls on a caller's state
Words == {<<1, 0>>, <<258, 65534>>}

Bufs == UNION {[1..n -> Words] : n \in 0..MaxWords}

NextMode(mode, v) == IF mode \in {"none", v} THEN v ELSE "mixed"

\* fletcher_4_incremental_native(buf, size, zcp): the state it leaves and the
\* kernel it ran
fletcher_4_incremental_native(buf, zcp) ==
    [zc |-> fletcher_4_scalar(buf, 1, zcp), ran |-> "scalar"]

\* fletcher_4_incremental_byteswap(buf, size, zcp)
fletcher_4_incremental_byteswap(buf, zcp) ==
    [zc |-> fletcher_4_scalar_byteswap(buf, 1, zcp), ran |-> "scalar"]

\* a caller zeroes its state (ZIO_SET_CHECKSUM(zcp, 0, 0, 0, 0)) or resumes
\* from a stored one. ck keeps that state, the words fed since, whether they
\* came in more than one piece, and which incremental functions were called.
CksumSet ==
    /\ \E s \in {<<U64Zero, U64Zero, U64Zero, U64Zero>>,
                 <<U64Ones, U64Ones, U64Ones, U64Ones>>} :
         /\ zc' = s
         /\ ck' = [s0 |-> s, fed |-> <<>>, mode |-> "none", ran |-> "none", split |-> FALSE]
    /\ UNCHANGED <<fvars, dvars>>

IncrementalNative ==
    /\ \E buf \in Bufs :
         /\ Len(ck.fed) + Len(buf) <= MaxWords
         /\ LET r == fletcher_4_incremental_native(buf, zc)
            IN  /\ zc' = r.zc
                /\ ck' = [ck EXCEPT !.fed = @ \o buf, !.ran = r.ran,
                                    !.split = @ \/ (ck.fed # <<>> /\ buf # <<>>),
                                    !.mode = NextMode(@, "native")]
    /\ UNCHANGED <<fvars, dvars>>

IncrementalByteswap ==
    /\ \E buf \in Bufs :
         /\ Len(ck.fed) + Len(buf) <= MaxWords
         /\ LET r == fletcher_4_incremental_byteswap(buf, zc)
            IN  /\ zc' = r.zc
                /\ ck' = [ck EXCEPT !.fed = @ \o buf, !.ran = r.ran,
                                    !.split = @ \/ (ck.fed # <<>> /\ buf # <<>>),
                                    !.mode = NextMode(@, "byteswap")]
    /\ UNCHANGED <<fvars, dvars>>

\* ------------------------------------------------------- specifications
Configs ==
    {[kernel |-> FALSE, avx2 |-> TRUE, avx2ok |-> TRUE],
     [kernel |-> FALSE, avx2 |-> TRUE, avx2ok |-> FALSE],
     [kernel |-> TRUE, avx2 |-> TRUE, avx2ok |-> TRUE],
     [kernel |-> FALSE, avx2 |-> FALSE, avx2ok |-> FALSE]}

\* lines 155-156, 165, 312: the statics before fletcher_4_init
FInit ==
    /\ phase = "down"
    /\ fletcher_4_chosen = "NULL"
    /\ fletcher_4_fastest = "NULL"
    /\ fletcher_4_impl_selector = FLETCHER_SCALAR
    /\ fletcher_4_impl_selector_lock = "uninit"
    /\ cycle_count = <<0, 0>>
    /\ bench = <<>>
    /\ wr = [pc |-> "idle", by |-> "none", name |-> <<>>, idx |-> NoIdx,
             ret |-> "none", tookLock |-> FALSE, counts |-> <<>>]
    /\ rd = [r \in Readers |-> IdleReader]
    /\ hist = <<>>

CInit ==
    /\ zc = <<U64Zero, U64Zero, U64Zero, U64Zero>>
    /\ ck = [s0 |-> zc, fed |-> <<>>, mode |-> "none", ran |-> "none", split |-> FALSE]

UserAvx2 == [kernel |-> FALSE, avx2 |-> TRUE, avx2ok |-> TRUE]

\* draid.c: the maps and their evaluators
Init == DInit /\ cfg = UserAvx2 /\ FInit /\ CInit

Next == NewMap \/ DevelopMap \/ EvalResilver \/ EvalDecluster \/ FreeMaps \/ Restart

Spec == Init /\ [][Next]_vars

\* zfs_fletcher.c: init, fini and init again, one thread calling
\* fletcher_4_impl_set and one dispatching, in every configuration
FletcherInitState == DInit /\ cfg \in Configs /\ FInit /\ CInit

ReaderStep(r) ==
    \/ ReaderCall(r) \/ ReaderCycle(r) \/ ReaderLoad(r)
    \/ ReaderInit(r) \/ ReaderCompute(r) \/ ReaderFini(r)

FletcherNext ==
    \/ FletcherInit \/ FletcherFini
    \/ SetCall \/ SetLock \/ SetChosen \/ SetSelector \/ SetUnlock
    \/ ReaderStep("r1")

SpecFletcher == FletcherInitState /\ [][FletcherNext]_vars

\* zfs_fletcher.c: after fletcher_4_init, the writer and two dispatching
\* threads, their steps interleaved
RaceInitState == DInit /\ cfg \in {c \in Configs : ~c.kernel /\ c.avx2} /\ FInit /\ CInit

RaceNext ==
    \/ FletcherInit
    \/ SetCall \/ SetLock \/ SetChosen \/ SetSelector \/ SetUnlock
    \/ \E r \in Readers : ReaderStep(r)

SpecRace == RaceInitState /\ [][RaceNext]_vars

\* zfs_fletcher.c: the incremental calls; fletcher_4_impl_set is called
\* between two runs of them
CksumNext ==
    \/ FletcherInit
    \/ (SetCall /\ ck.mode = "none")
    \/ SetLock \/ SetChosen \/ SetSelector \/ SetUnlock
    \/ CksumSet \/ IncrementalNative \/ IncrementalByteswap

SpecCksum == Init /\ [][CksumNext]_vars

\* draid.c: permute_devs applied to every row and every sequence of draws
PermuteNext == PermuteCall \/ PermuteDevs

SpecPermute == Init /\ [][PermuteNext]_vars

\* ================================================================= claims
IsPerm(row, n) == DOMAIN row = 0..(n - 1) /\ {row[j] : j \in 0..(n - 1)} = 0..(n - 1)

\* C1: every row of a map built by new_map holds each device id of
\* [0, ndevs) exactly once; row 0 is the identity, and with two devices every
\* later row is the previous row swapped.
C1_RowsArePermutations ==
    bmap # NoMap =>
        /\ \A j \in 0..(bmap.ndevs - 1) : bmap.rows[0][j] = j
        /\ \A r \in 0..(bmap.nrows - 1) : IsPerm(bmap.rows[r], bmap.ndevs)
        /\ bmap.ndevs = 2 =>
             \A r \in 1..(bmap.nrows - 1) : \A k \in 0..1 :
                bmap.rows[r][k] = bmap.rows[r - 1][1 - k]

\* a map of at least three devices whose second row was reordered by the sort
C1_Witness ==
    /\ bmap # NoMap /\ bmap.ndevs >= 3 /\ bmap.nrows >= 2
    /\ bmap.rows[1] # bmap.rows[0]

\* the events eval_resilver logged for row i
RowEvents(i, kind) == {e \in last.log : e.row = i /\ e.kind = kind}

GroupSlots(m, j) == (j * m.groupsz[j])..((j + 1) * m.groupsz[j] - 1)

GroupFailed(m, i, j) == \E p \in GroupSlots(m, j) : is_broken(m, m.rows[i][p])

\* C2 without the clause on distinct spares: writes go to healthy spare-slot
\* devices, one write per broken slot of a group, one read per healthy slot of
\* a failed group, nothing for the other groups.
C2_IoPerSlot(m) ==
    \A i \in 0..(m.nrows - 1) :
        /\ \A e \in RowEvents(i, "write") :
             /\ ~is_broken(m, e.dev)
             /\ e.at >= m.ndevs - m.nspares
             /\ m.rows[i][e.at] = e.dev
        /\ \A j \in 0..(m.ngroups - 1) : \A p \in GroupSlots(m, j) :
             LET wev == {e \in RowEvents(i, "write") : e.slot = p}
                 rev == {e \in RowEvents(i, "read") : e.slot = p}
             IN  IF ~GroupFailed(m, i, j) THEN wev = {} /\ rev = {}
                 ELSE IF is_broken(m, m.rows[i][p])
                 THEN Cardinality(wev) = 1 /\ rev = {}
                 ELSE /\ Cardinality(rev) = 1 /\ wev = {}
                      /\ \A e \in rev : e.dev = m.rows[i][p]

\* the writes of one row go to pairwise distinct devices
C2_DistinctSpares(m) ==
    \A i \in 0..(m.nrows - 1) : \A e1, e2 \in RowEvents(i, "write") :
        e1 # e2 => e1.dev # e2.dev

\* C2: in eval_resilver with nbroken <= nspares distinct broken devices, each
\* broken slot of a group produces one write, the writes of one row go to
\* pairwise distinct healthy spare-slot devices, each healthy slot of a failed
\* group produces one read, and the other groups produce no I/O.
C2_ResilverIo ==
    (last.op = "resilver" /\ TheMap(last.which).nbroken <= TheMap(last.which).nspares
        /\ ~last.asserted)
    => /\ C2_IoPerSlot(TheMap(last.which))
       /\ C2_DistinctSpares(TheMap(last.which))

\* C7: developed row r * ndevs + s has slot j equal to (base.row[r][j] + s) mod
\* ndevs, the developed map has nrows * ndevs rows, each a permutation, every
\* device occupies every slot position in exactly base-nrows rows, and
\* develop_map leaves the base map as it was.
C7_DevelopedMap ==
    /\ dmap # NoMap =>
        /\ dmap.nrows = bmap.nrows * bmap.ndevs
        /\ DOMAIN dmap.rows = 0..(bmap.nrows * bmap.ndevs - 1)
        /\ \A r \in 0..(bmap.nrows - 1) : \A s, j \in 0..(bmap.ndevs - 1) :
             dmap.rows[r * bmap.ndevs + s][j] = (bmap.rows[r][j] + s) % bmap.ndevs
        /\ \A r \in DOMAIN dmap.rows : IsPerm(dmap.rows[r], dmap.ndevs)
        /\ \A j, d \in 0..(bmap.ndevs - 1) :
             Cardinality({r \in DOMAIN dmap.rows : dmap.rows[r][j] = d}) = bmap.nrows
    /\ last.op = "develop" => bmap = last.base

\* a developed map of a base with a reordered second row
C7_Witness ==
    /\ dmap # NoMap /\ last.op = "develop"
    /\ bmap.ndevs >= 3 /\ bmap.nrows >= 2 /\ bmap.rows[1] # bmap.rows[0]

EvalsOf(n, faults) == IF faults = 1 THEN n ELSE (n * (n - 1)) \div 2

\* C10: with nbroken <= nspares no assert(spareIndex < ndevs) fires in
\* eval_resilver; eval_decluster with faults in {1, 2} and faults <= nspares
\* runs all ndevs (single) or ndevs * (ndevs - 1) / 2 (double) evaluations,
\* stores into broken[] only below nspares, leaves nbroken = 0, and returns
\* when how is one it knows.
C10_NoExhaustion ==
    /\ (last.op = "resilver" /\ TheMap(last.which).nbroken <= TheMap(last.which).nspares)
       => ~last.asserted /\ pcm = "done"
    /\ (last.op = "decluster" /\ last.faults <= TheMap(last.which).nspares)
       => /\ last.status \in {"returned", "badhow"}
          /\ last.how \in 0..2 => last.status = "returned" /\ pcm = "done"
          /\ last.iter_num = EvalsOf(TheMap(last.which).ndevs, last.faults)
          /\ last.wrote \subseteq 0..(TheMap(last.which).nspares - 1)
          /\ last.wrote = 0..(last.faults - 1)
          /\ last.nbroken = 0 /\ TheMap(last.which).nbroken = 0

\* a double-fault evaluation that returned, and used every spare, on a map
\* with a reordered row
C10_Witness ==
    /\ last.op = "decluster" /\ last.faults = 2 /\ last.status = "returned"
    /\ TheMap(last.which).nspares = 2 /\ TheMap(last.which).nrows >= 2
    /\ last.iter_num = 6 /\ last.max_ios > 0

\* the kernel a selector maps to (fastest, scalar, a SIMD name)
KernelOfName(k) ==
    IF k = FLETCHER_FASTEST THEN fletcher_4_fastest
    ELSE IF k = FLETCHER_SCALAR THEN "scalar"
    ELSE "avx2"

InDispatch(r) == rd[r].pc \in {"got", "inited", "computed"}

\* C3: after fletcher_4_init, when fletcher_4_impl_set(selector_names[k]), k
\* not cycle, has returned success, a fletcher_4_native or fletcher_4_byteswap
\* call that follows it with no set in between dispatches through the kernel
\* the name maps to, whatever the selector was before the set.
C3_SetThenDispatch ==
    \A r \in Readers :
        (/\ rd[r].fresh /\ InDispatch(r)
         /\ wr.by = "writer" /\ wr.pc = "idle" /\ wr.ret = "ok"
         /\ wr.idx # FLETCHER_CYCLE)
        => /\ ReaderAlgo(r) = KernelOfName(wr.idx)
           /\ rd[r].first \in {"NULL", KernelOfName(wr.idx)}

\* C4: a dispatch call never invokes functions of two kernels, and what it
\* invokes belongs to a registered kernel.
C4_NoTornDescriptor ==
    \A r \in Readers :
        /\ ~rd[r].mixed
        /\ rd[r].first \in {"NULL"} \cup {fletcher_4_algos[i] : i \in DOMAIN fletcher_4_algos}

\* both threads are inside a call, on different kernels, and the one that has
\* called init and compute holds a kernel that is no longer the chosen one
C4_Witness ==
    /\ rd["r1"].pc = "computed" /\ rd["r1"].algo # fletcher_4_chosen
    /\ rd["r1"].first = "avx2"
    /\ rd["r2"].pc = "inited" /\ rd["r2"].algo # rd["r1"].algo
    /\ wr.pc = "stored"

KindsAt(from, len, p) == {t \in from..(from + len - 1) : hist[t].algo = p}

\* C5: the calls that went through the cycle loop got pairwise different
\* counter values, each ended on the valid kernel algos[counter mod
\* ARRAY_SIZE], and in any K * n consecutive ones of them each of the K valid
\* kernels was picked n times.
C5_CycleFair ==
    LET K == Cardinality(ValidIdx)
    IN  /\ \A t, u \in 1..Len(hist) : t # u => hist[t].index # hist[u].index
        /\ \A t \in 1..Len(hist) :
             /\ IsValid(hist[t].algo)
             /\ hist[t].algo =
                  fletcher_4_algos[Mod32(hist[t].index, ARRAY_SIZE(fletcher_4_algos))]
        /\ \A n \in 1..MaxCycle : \A from \in 1..Len(hist) :
             from + K * n - 1 <= Len(hist) =>
                \A k \in ValidIdx :
                    Cardinality(KindsAt(from, K * n, fletcher_4_algos[k])) = n

\* four cycled calls over two valid kernels, a thread still in the loop
C5_Witness ==
    /\ Len(hist) >= 4 /\ Cardinality(ValidIdx) = 2
    /\ \E r \in Readers : rd[r].pc = "cycle"

\* one of the build's selector names is a prefix of name
KnownName(name) ==
    \E i \in DOMAIN selector_names :
        /\ Len(name) >= Len(selector_names[i])
        /\ SubSeq(name, 1, Len(selector_names[i])) = selector_names[i]

SetPublished ==
    /\ fletcher_4_chosen' = fletcher_4_chosen
    /\ fletcher_4_impl_selector' = fletcher_4_impl_selector

\* C6: fletcher_4_impl_set with a name that no selector name of the build is
\* a prefix of (cycle in the kernel is one) returns -EINVAL, changes none of
\* chosen, fastest and selector, and never takes the mutex; after init, chosen
\* and selector change only inside a fletcher_4_impl_set that returns success.
C6_SetRejects ==
    /\ [](wr.by = "writer" =>
            /\ ~KnownName(wr.name) =>
                 wr.pc = "idle" /\ wr.ret = "EINVAL" /\ ~wr.tookLock
            /\ wr.ret = "EINVAL" => ~KnownName(wr.name)
            /\ (wr.pc = "idle" /\ KnownName(wr.name)) => wr.ret = "ok")
    /\ [][/\ (wr' # wr /\ wr'.by = "writer" /\ wr'.ret = "EINVAL") =>
               /\ SetPublished
               /\ fletcher_4_fastest' = fletcher_4_fastest
               /\ fletcher_4_impl_selector_lock' = fletcher_4_impl_selector_lock
          /\ (phase = "ready" /\ ~SetPublished) =>
               /\ wr.pc \in {"locked", "stored"} /\ KnownName(wr.name)
               /\ wr'.by = "writer"]_vars

\* cycle was refused in a kernel build whose selector an earlier set had moved
C6_Witness ==
    /\ cfg.kernel /\ wr.by = "writer" /\ wr.name = N_cycle /\ wr.ret = "EINVAL"
    /\ fletcher_4_impl_selector = FLETCHER_AVX2 /\ fletcher_4_chosen = "avx2"

Limbs64(x) == \A i \in 1..4 : x[i] \in 0..65535

\* C8: feeding a buffer to fletcher_4_incremental_native in pieces leaves the
\* accumulators a, b, c, d that one call on the whole buffer leaves, each a
\* 64-bit value, the same with fletcher_4_incremental_byteswap, and the
\* incremental calls run the scalar kernel whatever the selector is.
C8_Incremental ==
    /\ ck.mode = "native" => zc = fletcher_4_incremental_native(ck.fed, ck.s0).zc
    /\ ck.mode = "byteswap" => zc = fletcher_4_incremental_byteswap(ck.fed, ck.s0).zc
    /\ ck.ran \in {"none", "scalar"}
    /\ \A i \in 1..4 : Limbs64(zc[i])

\* three words fed in several native calls from a zeroed state, while the
\* chosen kernel is the SIMD one
C8_Witness ==
    /\ ck.mode = "native" /\ Len(ck.fed) = 3 /\ ck.split
    /\ ck.s0 = fletcher_4_scalar_init /\ ck.ran = "scalar"
    /\ fletcher_4_chosen = "avx2"

\* C9: after every completed fletcher_4_init, fastest is a valid kernel whose
\* benchmark count is the largest of that init, chosen is that kernel and not
\* NULL, and the selector is fastest.
C9_InitPublishesWinner ==
    (phase = "ready" /\ wr.by = "init") =>
        /\ \E i \in ValidIdx :
             /\ fletcher_4_fastest = fletcher_4_algos[i]
             /\ \A j \in ValidIdx : wr.counts[j] <= wr.counts[i]
        /\ fletcher_4_chosen # "NULL"
        /\ fletcher_4_chosen = fletcher_4_fastest
        /\ fletcher_4_impl_selector = FLETCHER_FASTEST


\* the slot of the input row that holds device d
InSlot(d) == CHOOSE k \in 0..(last.ndevs - 1) : last.in[k] = d

\* the tag drawn for the device that permute_devs put at output position p
OutTag(p) == last.tags[InSlot(last.out[p])]

\* the output of permute_devs holds the devices of the input, in non-decreasing
\* tag order
SortedByTag ==
    /\ DOMAIN last.out = 0..(last.ndevs - 1)
    /\ {last.out[p] : p \in 0..(last.ndevs - 1)} = {last.in[k] : k \in 0..(last.ndevs - 1)}
    /\ \A p, q \in 0..(last.ndevs - 1) : p < q => OutTag(p) <= OutTag(q)

\* C11 as stated: for ndevs # 2 permute_devs outputs the input devices in
\* non-decreasing tag order, and two devices with equal tags keep the relative
\* order they had in the input row.
C11_StableSort ==
    (last.op = "permute_devs" /\ last.ndevs # 2) =>
        /\ SortedByTag
        /\ \A p, q \in 0..(last.ndevs - 1) :
             (p < q /\ OutTag(p) = OutTag(q)) => InSlot(last.out[p]) < InSlot(last.out[q])

\* C11 amended: for ndevs # 2 permute_devs outputs the input devices in
\* non-decreasing tag order; devices with equal tags may change their relative
\* order, but an input row whose tags are already in non-decreasing order is
\* output unchanged.
C11_SortedByTag ==
    (last.op = "permute_devs" /\ last.ndevs # 2) =>
        /\ SortedByTag
        /\ (\A k \in 0..(last.ndevs - 2) : last.tags[k] <= last.tags[k + 1])
              => last.out = last.in

\* a call whose draws hold a tie and an inversion, and whose output has the
\* two tied devices in the reverse of their input order
C11_Witness ==
    /\ last.op = "permute_devs" /\ last.ndevs >= 3
    /\ \E p, q \in 0..(last.ndevs - 1) :
         /\ p < q /\ OutTag(p) = OutTag(q)
         /\ InSlot(last.out[p]) > InSlot(last.out[q])
    /\ \A p, q \in 0..(last.ndevs - 1) : p < q => OutTag(p) <= OutTag(q)

====
